---- MODULE Spec2Model ----
(***************************************************************************)
(* A model of the Redis-backed DataRepository of go-datgarepo              *)
(* (datarepository.redis.go): the key grammar and validator, the           *)
(* identifier codec, and the CRUD and lock operations run by concurrent    *)
(* callers against one shared store.                                       *)
(*                                                                         *)
(* Strings are sequences of one-character strings, so that length, prefix, *)
(* split and join are computed as the Go code computes them.               *)
(***************************************************************************)
EXTENDS Integers, Sequences, FiniteSets, TLC

VARIABLES
    store,      \* the backend keyspace: key -> record (document or string)
    pc,         \* per caller: "idle", or the backend call it is about to make
    op,         \* per caller: the Create or Update in progress
    id,         \* per caller: that operation's identifier argument
    val,        \* per caller: the value argument of a Create/Update in progress
    ikey,       \* per caller: the key a Create/Update in progress rendered
    last,       \* the step just taken: who called what, and what it returned
    reply,      \* what the backend answered to the enumeration of that step
    lease,      \* per caller, per lock key: time left of the lock it was granted
    k,          \* codec runs: the key string under test
    kerr,       \* codec runs: validateKey's verdict on k
    kid,        \* codec runs: keyToIdentifier's result on k
    ident,      \* codec runs: the identifier under test
    ikres,      \* codec runs: identifierToKey's result on ident
    back,       \* codec runs: keyToIdentifier's result on that key
    subChannel, \* the subscription: the backend channel it is on, <<>> before Subscribe
    srcQueue,   \* the messages waiting in the subscription's message source
    srcClosed,  \* the subscription's message source has been closed
    fwdPc,      \* the forwarding task: "none", "range", "send" or "done"
    fwdMsg,     \* the message the forwarding task took and has yet to send
    chClosed,   \* the output stream of the subscription has been closed
    delivered,  \* the messages the backend delivered to the subscription, in order
    received,   \* the payloads the consumer received on the output stream, in order
    consumer    \* the consumer of the output stream: "receiving" or "stopped"

vars == <<store, pc, op, id, val, ikey, last, reply, lease,
          k, kerr, kid, ident, ikres, back,
          subChannel, srcQueue, srcClosed, fwdPc, fwdMsg, chClosed,
          delivered, received, consumer>>

repoVars == <<store, pc, op, id, val, ikey, last, reply, lease>>
keyVars == <<k, kerr, kid>>
codecVars == <<ident, ikres, back>>
subVars == <<subChannel, srcQueue, srcClosed, fwdPc, fwdMsg, chClosed,
             delivered, received, consumer>>

-----------------------------------------------------------------------------
(* Program constants                                                       *)

MinKeyLength == 5
MaxKeyLength == 256

DefaultKeyPrefix == <<"a", "p", "p">>
DefaultKeySeparator == <<":">>
KeyPartLock == <<"l", "o", "c", "k">>
KeyPartPubSubChannel == <<"c", "h", "a", "n", "n", "e", "l">>

\* The handle built by NewRedisRepository from a configuration that leaves
\* KeyPrefix and KeySeparator unset.
prefix == DefaultKeyPrefix
separator == DefaultKeySeparator

-----------------------------------------------------------------------------
(* Bounds of the model                                                     *)

MaxLen == 7         \* key strings under test: every string up to this length
MaxPart == 2        \* identifier parts under test: every string up to this length
MaxTTL == 2         \* lock leases last 1..MaxTTL ticks
MaxHits == 3        \* a search answer holds up to this many keys
MaxMsgs == 3        \* the backend delivers up to this many messages to the subscription

-----------------------------------------------------------------------------
(* Character classes of the two regular expressions                        *)

Letters ==
    {"a", "b", "c", "d", "e", "f", "g", "h", "i", "j", "k", "l", "m",
     "n", "o", "p", "q", "r", "s", "t", "u", "v", "w", "x", "y", "z",
     "A", "B", "C", "D", "E", "F", "G", "H", "I", "J", "K", "L", "M",
     "N", "O", "P", "Q", "R", "S", "T", "U", "V", "W", "X", "Y", "Z"}

Digits == {"0", "1", "2", "3", "4", "5", "6", "7", "8", "9"}

KeyChars == Letters \cup Digits \cup {"_", ":", ".", "-"}
EntityChars == Letters \cup Digits \cup {"_"}

\* ^[a-zA-Z0-9_:.-]+$
validKeyRegex(s) ==
    /\ Len(s) >= 1
    /\ \A i \in 1..Len(s) : s[i] \in KeyChars

\* ^[a-zA-Z][a-zA-Z0-9_]*$
entityPrefixRegex(s) ==
    /\ Len(s) >= 1
    /\ s[1] \in Letters
    /\ \A i \in 1..Len(s) : s[i] \in EntityChars

-----------------------------------------------------------------------------
(* strings.HasPrefix, strings.Split, strings.Join                          *)

HasPrefix(s, p) ==
    /\ Len(s) >= Len(p)
    /\ SubSeq(s, 1, Len(p)) = p

\* Positions at which sep occurs in s.
Occurs(s, sep) ==
    {i \in 1..(Len(s) - Len(sep) + 1) : SubSeq(s, i, i + Len(sep) - 1) = sep}

Min(S) == CHOOSE m \in S : \A n \in S : m <= n

RECURSIVE Split(_, _)
Split(s, sep) ==
    IF Occurs(s, sep) = {}
    THEN <<s>>
    ELSE LET i == Min(Occurs(s, sep))
         IN  <<SubSeq(s, 1, i - 1)>> \o Split(SubSeq(s, i + Len(sep), Len(s)), sep)

RECURSIVE Join(_, _)
Join(parts, sep) ==
    IF Len(parts) = 0 THEN <<>>
    ELSE IF Len(parts) = 1 THEN parts[1]
    ELSE parts[1] \o sep \o Join(Tail(parts), sep)

-----------------------------------------------------------------------------
(* Key grammar and validator. Errors are named by their Go variable; "nil" *)
(* is success.                                                             *)

\* validateKey with the upper length bound off by one.
validateKeyShort(key) ==
    IF Len(key) < MinKeyLength \/ Len(key) >= MaxKeyLength
    THEN "ErrInvalidKeyLength"
    ELSE IF ~validKeyRegex(key)
    THEN "ErrInvalidKeyChars"
    ELSE IF ~HasPrefix(key, prefix \o separator)
    THEN "ErrInvalidKeyPrefix"
    ELSE LET parts == Split(key, separator)
         IN  IF Len(parts) < 2 \/ parts[2] = <<>>
             THEN "ErrInvalidKeySuffix"
             ELSE IF \E i \in 1..Len(parts) : parts[i] = <<>>
             THEN "ErrEmptyKeyPart"
             ELSE "nil"

\* validateKey with the empty-part scan ahead of the suffix check.
validateKeyScanFirst(key) ==
    IF Len(key) < MinKeyLength \/ Len(key) > MaxKeyLength
    THEN "ErrInvalidKeyLength"
    ELSE IF ~validKeyRegex(key)
    THEN "ErrInvalidKeyChars"
    ELSE IF ~HasPrefix(key, prefix \o separator)
    THEN "ErrInvalidKeyPrefix"
    ELSE LET parts == Split(key, separator)
         IN  IF \E i \in 1..Len(parts) : parts[i] = <<>>
             THEN "ErrEmptyKeyPart"
             ELSE IF Len(parts) < 2 \/ parts[2] = <<>>
             THEN "ErrInvalidKeySuffix"
             ELSE "nil"

\* validateKey with the character check ahead of the length check.
validateKeyCharsFirst(key) ==
    IF ~validKeyRegex(key)
    THEN "ErrInvalidKeyChars"
    ELSE IF Len(key) < MinKeyLength \/ Len(key) > MaxKeyLength
    THEN "ErrInvalidKeyLength"
    ELSE IF ~HasPrefix(key, prefix \o separator)
    THEN "ErrInvalidKeyPrefix"
    ELSE LET parts == Split(key, separator)
         IN  IF Len(parts) < 2 \/ parts[2] = <<>>
             THEN "ErrInvalidKeySuffix"
             ELSE IF \E i \in 1..Len(parts) : parts[i] = <<>>
             THEN "ErrEmptyKeyPart"
             ELSE "nil"

validateKey(key) ==
    IF Len(key) < MinKeyLength \/ Len(key) > MaxKeyLength
    THEN "ErrInvalidKeyLength"
    ELSE IF ~validKeyRegex(key)
    THEN "ErrInvalidKeyChars"
    ELSE IF ~HasPrefix(key, prefix \o separator)
    THEN "ErrInvalidKeyPrefix"
    ELSE LET parts == Split(key, separator)
         IN  IF Len(parts) < 2 \/ parts[2] = <<>>
             THEN "ErrInvalidKeySuffix"
             ELSE IF \E i \in 1..Len(parts) : parts[i] = <<>>
             THEN "ErrEmptyKeyPart"
             ELSE "nil"

validateEntityPrefix(entityPrefix) ==
    IF ~entityPrefixRegex(entityPrefix) THEN "ErrInvalidEntityPrefix" ELSE "nil"

-----------------------------------------------------------------------------
(* Identifier codec. An identifier is a record tagged with its Go type.    *)

RedisIdentifier(e, i) == [type |-> "RedisIdentifier", EntityPrefix |-> e, ID |-> i]
SimpleIdentifier(s) == [type |-> "SimpleIdentifier", s |-> s]
OtherIdentifier == [type |-> "other"]
NoIdentifier == [type |-> "none"]

createKey(parts) ==
    LET key == Join(<<prefix>> \o parts, separator)
        err == validateKey(key)
    IN  IF err # "nil" THEN [key |-> <<>>, err |-> err]
        ELSE [key |-> key, err |-> "nil"]

\* parseKey that keeps the prefix among the parts.
parseKeyWhole(key) ==
    LET err == validateKey(key)
    IN  IF err # "nil" THEN [parts |-> <<>>, err |-> err]
        ELSE [parts |-> Split(key, separator), err |-> "nil"]

parseKey(key) ==
    LET err == validateKey(key)
    IN  IF err # "nil" THEN [parts |-> <<>>, err |-> err]
        ELSE [parts |-> Tail(Split(key, separator)), err |-> "nil"]

identifierToKey(identifier) ==
    IF identifier.type = "RedisIdentifier"
    THEN IF validateEntityPrefix(identifier.EntityPrefix) # "nil"
         THEN [key |-> <<>>, err |-> validateEntityPrefix(identifier.EntityPrefix)]
         ELSE createKey(<<identifier.EntityPrefix, identifier.ID>>)
    ELSE IF identifier.type = "SimpleIdentifier"
    THEN createKey(<<identifier.s>>)
    ELSE [key |-> <<>>, err |-> "ErrUnsupportedIdentifier"]

\* keyToIdentifier that keeps every part after the entity prefix in the ID.
keyToIdentifierJoinRest(key) ==
    LET p == parseKey(key)
    IN  IF p.err # "nil" THEN [identifier |-> NoIdentifier, err |-> p.err]
        ELSE IF Len(p.parts) >= 2
        THEN [identifier |-> RedisIdentifier(p.parts[1], Join(Tail(p.parts), separator)),
              err |-> "nil"]
        ELSE [identifier |-> SimpleIdentifier(Join(p.parts, separator)), err |-> "nil"]

keyToIdentifier(key) ==
    LET p == parseKey(key)
    IN  IF p.err # "nil" THEN [identifier |-> NoIdentifier, err |-> p.err]
        ELSE IF Len(p.parts) >= 2
        THEN [identifier |-> RedisIdentifier(p.parts[1], p.parts[2]), err |-> "nil"]
        ELSE [identifier |-> SimpleIdentifier(Join(p.parts, separator)), err |-> "nil"]

-----------------------------------------------------------------------------
(* Codec runs: the pure functions applied to every input within the bounds *)

Strings(A, n) == UNION {[1..m -> A] : m \in 0..n}

Repeat(c, n) == [i \in 1..n |-> c]

\* Characters of the keys under test: those of the prefix and separator,
\* and one outside the key character class.
KeyAlphabet == {"a", "p", ":", "!"}

\* Every short string, the examples of the documentation, and keys at and
\* beyond MaxKeyLength.
KeyInputs ==
    Strings(KeyAlphabet, MaxLen)
    \cup {<<"a", "p", "p", ":", ":", "4", "2">>,
          <<"a", "p", "p", ":", "u", "s", "e", "r", ":", "4", "2">>,
          <<"a", "p", "p", ":", "u", ":", "4", ":", "2">>}
    \cup {prefix \o separator \o Repeat("a", n) :
            n \in (MaxKeyLength - 5)..(MaxKeyLength - 3)}
    \cup {Repeat("!", MaxKeyLength + 1), Repeat(":", MaxKeyLength + 1)}

InitKey ==
    /\ k \in KeyInputs
    /\ kerr = "none"
    /\ kid = [identifier |-> NoIdentifier, err |-> "none"]

ValidateKey ==
    /\ kerr = "none"
    /\ kerr' = validateKey(k)
    /\ UNCHANGED <<k, kid, repoVars, codecVars, subVars>>

DecodeKey ==
    /\ kid.err = "none"
    /\ kid' = keyToIdentifier(k)
    /\ UNCHANGED <<k, kerr, repoVars, codecVars, subVars>>

\* Characters of the identifier parts under test: a letter, a digit, the
\* underscore, the separator, a character of the key class that no entity
\* prefix may hold, and one outside the key class.
PartAlphabet == {"a", "1", "_", ":", "-", "!"}

LongPart == Repeat("a", MaxKeyLength - 5)

IdentInputs ==
    {RedisIdentifier(e, i) : e \in Strings(PartAlphabet, MaxPart) \cup {LongPart},
                             i \in Strings(PartAlphabet, MaxPart)}
    \cup {SimpleIdentifier(s) :
            s \in Strings(PartAlphabet, MaxPart + 1) \cup {LongPart, LongPart \o <<"a">>}}
    \cup {RedisIdentifier(<<"u", "s", "e", "r">>, <<"4", "2">>), OtherIdentifier}

InitCodec ==
    /\ ident \in IdentInputs
    /\ ikres = [key |-> <<>>, err |-> "none"]
    /\ back = [identifier |-> NoIdentifier, err |-> "none"]

ToKey ==
    /\ ikres.err = "none"
    /\ ikres' = identifierToKey(ident)
    /\ UNCHANGED <<ident, back, repoVars, keyVars, subVars>>

FromKey ==
    /\ ikres.err = "nil"
    /\ back.err = "none"
    /\ back' = keyToIdentifier(ikres.key)
    /\ UNCHANGED <<ident, ikres, repoVars, keyVars, subVars>>


-----------------------------------------------------------------------------
(* The backend store. A record is a JSON document or a plain string; ttl   *)
(* is the time the key has left, 0 for a key that does not expire.         *)

Document(v) == [type |-> "json", v |-> v, ttl |-> 0]
StringValue(v, ttl) == [type |-> "string", v |-> v, ttl |-> ttl]

Put(st, key, rec) ==
    [x \in DOMAIN st \cup {key} |-> IF x = key THEN rec ELSE st[x]]

Remove(st, key) == [x \in DOMAIN st \ {key} |-> st[x]]

EmptyStore == [x \in {} |-> Document("none")]

\* EXISTS key
Exists(st, key) == IF key \in DOMAIN st THEN 1 ELSE 0

\* JSON.SET key $ value: refused on a key that holds another type.
JSONSet(st, key, v) ==
    IF key \in DOMAIN st /\ st[key].type # "json"
    THEN [err |-> "WRONGTYPE", store |-> st]
    ELSE [err |-> "nil", store |-> Put(st, key, Document(v))]

\* JSON.GET key $: redis.Nil on a missing key.
JSONGet(st, key) ==
    IF key \notin DOMAIN st THEN [err |-> "redis.Nil", v |-> "none"]
    ELSE IF st[key].type # "json" THEN [err |-> "WRONGTYPE", v |-> "none"]
    ELSE [err |-> "nil", v |-> st[key].v]

\* DEL key
Del(st, key) ==
    IF key \in DOMAIN st THEN [n |-> 1, store |-> Remove(st, key)]
    ELSE [n |-> 0, store |-> st]

\* SET key value EX ttl, without NX: the key is written whether it exists or not.
SetAlways(st, key, v, ttl) == [ok |-> TRUE, store |-> Put(st, key, StringValue(v, ttl))]

\* SET key value EX ttl NX
SetNX(st, key, v, ttl) ==
    IF key \in DOMAIN st THEN [ok |-> FALSE, store |-> st]
    ELSE [ok |-> TRUE, store |-> Put(st, key, StringValue(v, ttl))]

\* KEYS pattern*: the keys that start with the pattern, in the backend's order.
Keys(st, pat) == {x \in DOMAIN st : HasPrefix(x, pat)}

Orderings(S) == {q \in [1..Cardinality(S) -> S] : \A x \in S : \E i \in DOMAIN q : q[i] = x}

\* Time passes by one unit: keys whose time is up are gone.
Expire(st) ==
    [x \in {y \in DOMAIN st : st[y].ttl # 1} |->
        IF st[x].ttl = 0 THEN st[x] ELSE [st[x] EXCEPT !.ttl = @ - 1]]

-----------------------------------------------------------------------------
(* Callers and their arguments                                             *)

Callers == {"c1", "c2"}
Values == {"v1", "v2"}
Channels == {<<"n">>, <<"o">>}
Messages == {"m1", "m2"}
TTLs == 1..MaxTTL

IdX == SimpleIdentifier(<<"x">>)
IdXLock == RedisIdentifier(<<"x">>, KeyPartLock)
IdBadEntity == RedisIdentifier(<<"1", "u">>, <<"1">>)
IdBadKey == SimpleIdentifier(<<>>)

Ids == {IdX, IdXLock, IdBadEntity, IdBadKey}

\* identifierToKey on each of these identifiers, computed once.
RenderedKey == [i \in Ids |-> identifierToKey(i)]

ValidIds == {i \in Ids : RenderedKey[i].err = "nil"}

LockKey(key) == key \o separator \o KeyPartLock

LockKeys == {LockKey(RenderedKey[i].key) : i \in ValidIds}

\* What an operation returned: the error (with the text it wraps), and the
\* operation's own result.
Result(err, cause, out) == [err |-> err, cause |-> cause, out |-> out]
Pending == Result("pending", "", "none")

\* The identifier error returned as it is, not wrapped.
Unwrapped(err) == Result(err, "", "none")

\* fmt.Errorf("%w: %v", ErrInvalidIdentifier, err)
InvalidIdentifier(err) == Result("ErrInvalidIdentifier", err, "none")
\* fmt.Errorf("%w: %v", ErrOperationFailed, err)
OperationFailed(err) == Result("ErrOperationFailed", err, "none")

\* The record of a step: caller c's operation o on identifier i has so far
\* made n backend calls and returned r (Pending: it has not returned).
Step(c, o, i, r, n) == [c |-> c, op |-> o, id |-> i, res |-> r, calls |-> n]

\* The step made no enumeration.
NoReply == <<>>

NoStep == Step("none", "none", NoIdentifier, Result("none", "", "none"), 0)

\* No caller has called yet.
InitCallers ==
    /\ pc = [c \in Callers |-> "idle"]
    /\ op = [c \in Callers |-> "none"]
    /\ id = [c \in Callers |-> NoIdentifier]
    /\ val = [c \in Callers |-> "none"]
    /\ ikey = [c \in Callers |-> <<>>]
    /\ last = NoStep
    /\ reply = NoReply
    /\ lease = [c \in Callers |-> [lk \in LockKeys |-> 0]]

InitRepo ==
    /\ store = EmptyStore
    /\ InitCallers

\* No codec run is under way.
NoKeyRun ==
    /\ k = <<>>
    /\ kerr = "none"
    /\ kid = [identifier |-> NoIdentifier, err |-> "none"]

NoCodecRun ==
    /\ ident = NoIdentifier
    /\ ikres = [key |-> <<>>, err |-> "none"]
    /\ back = [identifier |-> NoIdentifier, err |-> "none"]

\* A message of the backend subscription.
Message(channel, payload) == [Channel |-> channel, Payload |-> payload]
NoMessage == Message(<<>>, "none")

\* No subscription has been opened.
NoSubscription ==
    /\ subChannel = <<>>
    /\ srcQueue = <<>>
    /\ srcClosed = FALSE
    /\ fwdPc = "none"
    /\ fwdMsg = NoMessage
    /\ chClosed = FALSE
    /\ delivered = <<>>
    /\ received = <<>>
    /\ consumer = "receiving"

Init == InitRepo /\ NoKeyRun /\ NoCodecRun /\ NoSubscription

\* Caller c's operation o on identifier i returns r after n backend calls,
\* leaving the store as st.
Answered(c, o, i, r, n, st, answer) ==
    /\ pc' = [pc EXCEPT ![c] = "idle"]
    /\ op' = [op EXCEPT ![c] = "none"]
    /\ id' = [id EXCEPT ![c] = NoIdentifier]
    /\ val' = [val EXCEPT ![c] = "none"]
    /\ ikey' = [ikey EXCEPT ![c] = <<>>]
    /\ last' = Step(c, o, i, r, n)
    /\ reply' = answer
    /\ store' = st
    /\ UNCHANGED <<keyVars, codecVars>>

\* The same, of an operation that enumerates nothing.
Returned(c, o, i, r, n, st) == Answered(c, o, i, r, n, st, NoReply)

\* The same, of an operation that does not touch the subscription either.
Return(c, o, i, r, n, st) ==
    /\ Returned(c, o, i, r, n, st)
    /\ UNCHANGED subVars

\* An enumeration returns r, built from the backend's answer.
ReturnFrom(c, o, i, r, n, st, answer) ==
    /\ Answered(c, o, i, r, n, st, answer)
    /\ UNCHANGED subVars

\* Caller c's operation o goes on to its document-set.
Proceed(c, o, i, key, v) ==
    /\ pc' = [pc EXCEPT ![c] = "JSONSet"]
    /\ op' = [op EXCEPT ![c] = o]
    /\ id' = [id EXCEPT ![c] = i]
    /\ val' = [val EXCEPT ![c] = v]
    /\ ikey' = [ikey EXCEPT ![c] = key]
    /\ last' = Step(c, o, i, Pending, 1)
    /\ reply' = NoReply
    /\ store' = store
    /\ UNCHANGED <<keyVars, codecVars, subVars>>

-----------------------------------------------------------------------------
(* The operations. An operation renders its key and makes its first        *)
(* backend call in one step; Create and Update make their second call, the *)
(* document-set, in a later step, so other callers run in between. fault   *)
(* says that the backend call of the step reports an error.                *)

\* Create without its existence check.
CreateUnchecked(c, i, v, fault) ==
    /\ pc[c] = "idle"
    /\ LET r == RenderedKey[i]
       IN  IF r.err # "nil"
           THEN Return(c, "Create", i, InvalidIdentifier(r.err), 0, store)
           ELSE Proceed(c, "Create", i, r.key, v)

Create(c, i, v, fault) ==
    /\ pc[c] = "idle"
    /\ LET r == RenderedKey[i]
       IN  IF r.err # "nil"
           THEN Return(c, "Create", i, InvalidIdentifier(r.err), 0, store)
           ELSE IF fault
           THEN Return(c, "Create", i, OperationFailed("backend"), 1, store)
           ELSE IF Exists(store, r.key) = 1
           THEN Return(c, "Create", i, Result("ErrAlreadyExists", "", "none"), 1, store)
           ELSE Proceed(c, "Create", i, r.key, v)

\* The document-set of Create as a set-if-absent: it fails on a key that
\* has come to exist since the probe.
CreateSetIfAbsent(c, fault) ==
    /\ pc[c] = "JSONSet"
    /\ op[c] = "Create"
    /\ LET w == JSONSet(store, ikey[c], val[c])
       IN  IF fault
           THEN Return(c, "Create", id[c], Result("backend", "", "none"), 2, store)
           ELSE IF Exists(store, ikey[c]) = 1
           THEN Return(c, "Create", id[c], Result("ErrAlreadyExists", "", "none"), 2, store)
           ELSE Return(c, "Create", id[c], Result(w.err, "", "none"), 2, w.store)

CreateSet(c, fault) ==
    /\ pc[c] = "JSONSet"
    /\ op[c] = "Create"
    /\ LET w == JSONSet(store, ikey[c], val[c])
       IN  IF fault
           THEN Return(c, "Create", id[c], Result("backend", "", "none"), 2, store)
           ELSE Return(c, "Create", id[c], Result(w.err, "", "none"), 2, w.store)

Read(c, i, fault) ==
    /\ pc[c] = "idle"
    /\ LET r == RenderedKey[i]
           g == JSONGet(store, r.key)
       IN  IF r.err # "nil"
           THEN Return(c, "Read", i, InvalidIdentifier(r.err), 0, store)
           ELSE IF fault
           THEN Return(c, "Read", i, OperationFailed("backend"), 1, store)
           ELSE IF g.err = "redis.Nil"
           THEN Return(c, "Read", i, Result("ErrNotFound", "", "none"), 1, store)
           ELSE IF g.err # "nil"
           THEN Return(c, "Read", i, OperationFailed(g.err), 1, store)
           ELSE Return(c, "Read", i, Result("nil", "", g.v), 1, store)

\* Update without its existence check: an upsert.
UpdateUnchecked(c, i, v, fault) ==
    /\ pc[c] = "idle"
    /\ LET r == RenderedKey[i]
       IN  IF r.err # "nil"
           THEN Return(c, "Update", i, InvalidIdentifier(r.err), 0, store)
           ELSE Proceed(c, "Update", i, r.key, v)

Update(c, i, v, fault) ==
    /\ pc[c] = "idle"
    /\ LET r == RenderedKey[i]
       IN  IF r.err # "nil"
           THEN Return(c, "Update", i, InvalidIdentifier(r.err), 0, store)
           ELSE IF fault
           THEN Return(c, "Update", i, OperationFailed("backend"), 1, store)
           ELSE IF Exists(store, r.key) = 0
           THEN Return(c, "Update", i, Result("ErrNotFound", "", "none"), 1, store)
           ELSE Proceed(c, "Update", i, r.key, v)

UpdateSet(c, fault) ==
    /\ pc[c] = "JSONSet"
    /\ op[c] = "Update"
    /\ LET w == JSONSet(store, ikey[c], val[c])
       IN  IF fault
           THEN Return(c, "Update", id[c], Result("backend", "", "none"), 2, store)
           ELSE Return(c, "Update", id[c], Result(w.err, "", "none"), 2, w.store)

\* Delete that does not look at the number of keys removed.
DeleteUncounted(c, i, fault) ==
    /\ pc[c] = "idle"
    /\ LET r == RenderedKey[i]
           d == Del(store, r.key)
       IN  IF r.err # "nil"
           THEN Return(c, "Delete", i, InvalidIdentifier(r.err), 0, store)
           ELSE Return(c, "Delete", i, Result("nil", "", "none"), 1, d.store)

Delete(c, i, fault) ==
    /\ pc[c] = "idle"
    /\ LET r == RenderedKey[i]
           d == Del(store, r.key)
       IN  IF r.err # "nil"
           THEN Return(c, "Delete", i, InvalidIdentifier(r.err), 0, store)
           ELSE IF fault
           THEN Return(c, "Delete", i, OperationFailed("backend"), 1, store)
           ELSE IF d.n = 0
           THEN Return(c, "Delete", i, Result("ErrNotFound", "", "none"), 1, d.store)
           ELSE Return(c, "Delete", i, Result("nil", "", "none"), 1, d.store)

\* Keys of the shared keyspace that were not written through this handle:
\* "app:x:" ends in an empty part, "app:x:a:b" has three parts after the
\* prefix, "web:x" is under another prefix.
ForeignKeys ==
    {<<"a", "p", "p", ":", "x", ":">>,
     <<"a", "p", "p", ":", "x", ":", "a", ":", "b">>,
     <<"w", "e", "b", ":", "x">>}

\* The keys the store can hold: those of the identifiers, their locks, and
\* the foreign ones.
KeySpace == {RenderedKey[i].key : i \in ValidIds} \cup LockKeys \cup ForeignKeys

\* List's loop body on each of these keys, computed once: whether the key is
\* skipped, and the identifier it decodes to.
KeyDecoding ==
    [x \in KeySpace |->
        [skip |-> validateKey(x) # "nil" \/ keyToIdentifier(x).err # "nil",
         identifier |-> keyToIdentifier(x).identifier]]

\* List's loop leaving at the first key it cannot use, not skipping it.
DecodedUntilBad(keys) ==
    LET bad == {n \in 1..Len(keys) : KeyDecoding[keys[n]].skip}
        good == IF bad = {} THEN keys ELSE SubSeq(keys, 1, Min(bad) - 1)
    IN  [n \in 1..Len(good) |-> KeyDecoding[good[n]].identifier]

\* The identifiers List builds from the keys the backend returned.
Decoded(keys) ==
    LET good == SelectSeq(keys, LAMBDA x : ~KeyDecoding[x].skip)
    IN  [n \in 1..Len(good) |-> KeyDecoding[good[n]].identifier]

List(c, i, fault) ==
    /\ pc[c] = "idle"
    /\ LET r == RenderedKey[i]
       IN  IF r.err # "nil"
           THEN Return(c, "List", i, InvalidIdentifier(r.err), 0, store)
           ELSE IF fault
           THEN Return(c, "List", i, OperationFailed("backend"), 1, store)
           ELSE \E keys \in Orderings(Keys(store, r.key)) :
                   ReturnFrom(c, "List", i, Result("nil", "", Decoded(keys)), 1, store, keys)

AcquireLock(c, i, ttl, fault) ==
    /\ pc[c] = "idle"
    /\ LET r == RenderedKey[i]
           a == SetNX(store, LockKey(r.key), 1, ttl)
       IN  IF r.err # "nil"
           THEN Return(c, "AcquireLock", i, InvalidIdentifier(r.err), 0, store)
           ELSE IF fault
           THEN Return(c, "AcquireLock", i, OperationFailed("backend"), 1, store)
           ELSE Return(c, "AcquireLock", i, Result("nil", "", a.ok), 1, a.store)

ReleaseLock(c, i, fault) ==
    /\ pc[c] = "idle"
    /\ LET r == RenderedKey[i]
           d == Del(store, LockKey(r.key))
       IN  IF r.err # "nil"
           THEN Return(c, "ReleaseLock", i, InvalidIdentifier(r.err), 0, store)
           ELSE IF fault
           THEN Return(c, "ReleaseLock", i, OperationFailed("backend"), 1, store)
           ELSE IF d.n = 0
           THEN Return(c, "ReleaseLock", i, Result("ErrNotFound", "", "none"), 1, d.store)
           ELSE Return(c, "ReleaseLock", i, Result("nil", "", "none"), 1, d.store)

\* What the backend's search primitive answers: a value that is an array of
\* items or is not; an item is an integer, a string or something else (the
\* fields of a document).
Int64(n) == [kind |-> "int64", n |-> n]
String(s) == [kind |-> "string", s |-> s]
Fields == [kind |-> "array"]
Array(items) == [kind |-> "array", items |-> items]
NotArray == [kind |-> "other"]

\* The loop of Search over the envelope: Go's i = 1, 3, 5, ... are the
\* positions 2, 4, 6, ... here. Items that are no strings and keys that fail
\* validation or decoding are skipped.
RECURSIVE SearchLoop(_, _)
SearchLoop(array, n) ==
    IF n > Len(array) THEN <<>>
    ELSE IF array[n].kind # "string" THEN SearchLoop(array, n + 2)
    ELSE IF KeyDecoding[array[n].s].skip THEN SearchLoop(array, n + 2)
    ELSE <<KeyDecoding[array[n].s].identifier>> \o SearchLoop(array, n + 2)

\* The envelope [totalCount, key1, fields1, key2, fields2, ...].
Envelope(total, keys) ==
    Array(<<Int64(total)>> \o [n \in 1..(2 * Len(keys)) |->
                                 IF n % 2 = 1 THEN String(keys[(n + 1) \div 2]) ELSE Fields])

\* The sequences of up to MaxHits different keys of the store.
Hits(st) ==
    {q \in UNION {[1..n -> DOMAIN st] : n \in 0..MaxHits} :
        \A a, b \in DOMAIN q : a # b => q[a] # q[b]}

\* What the search primitive can answer over the store: an envelope of some
\* of its keys in any order, with a total that counts at least the keys
\* returned, or an answer of another shape.
Replies(st) ==
    {Envelope(Len(q) + more, q) : q \in Hits(st), more \in {0, 1}}
    \cup {NotArray, Array(<<>>), Array(<<Fields>>)}

\* Search that reports an empty result as an error.
SearchZeroFails(c, res, fault) ==
    /\ pc[c] = "idle"
    /\ IF fault
       THEN Return(c, "Search", NoIdentifier, OperationFailed("backend"), 1, store)
       ELSE IF res.kind # "array"
       THEN ReturnFrom(c, "Search", NoIdentifier,
                       Result("unexpected search result format", "", "none"), 1, store, res)
       ELSE IF Len(res.items) < 1
       THEN ReturnFrom(c, "Search", NoIdentifier,
                       Result("unexpected search result format", "", "none"), 1, store, res)
       ELSE IF res.items[1].kind # "int64"
       THEN ReturnFrom(c, "Search", NoIdentifier,
                       Result("unexpected total results format", "", "none"), 1, store, res)
       ELSE IF res.items[1].n = 0
       THEN ReturnFrom(c, "Search", NoIdentifier,
                       Result("no results", "", "none"), 1, store, res)
       ELSE ReturnFrom(c, "Search", NoIdentifier,
                       Result("nil", "", SearchLoop(res.items, 2)), 1, store, res)

Search(c, res, fault) ==
    /\ pc[c] = "idle"
    /\ IF fault
       THEN Return(c, "Search", NoIdentifier, OperationFailed("backend"), 1, store)
       ELSE IF res.kind # "array"
       THEN ReturnFrom(c, "Search", NoIdentifier,
                       Result("unexpected search result format", "", "none"), 1, store, res)
       ELSE IF Len(res.items) < 1
       THEN ReturnFrom(c, "Search", NoIdentifier,
                       Result("unexpected search result format", "", "none"), 1, store, res)
       ELSE IF res.items[1].kind # "int64"
       THEN ReturnFrom(c, "Search", NoIdentifier,
                       Result("unexpected total results format", "", "none"), 1, store, res)
       ELSE IF res.items[1].n = 0
       THEN ReturnFrom(c, "Search", NoIdentifier, Result("nil", "", <<>>), 1, store, res)
       ELSE ReturnFrom(c, "Search", NoIdentifier,
                       Result("nil", "", SearchLoop(res.items, 2)), 1, store, res)

\* Publish returns what the backend's publish returned. What the backend
\* does with the message is the backend's step, not this one's.
Publish(c, channel, message, fault) ==
    /\ pc[c] = "idle"
    /\ IF fault
       THEN Returned(c, "Publish", NoIdentifier, Result("backend", "", "none"), 1, store)
       ELSE Returned(c, "Publish", NoIdentifier, Result("nil", "", "none"), 1, store)

\* r.prefix + r.separator + KeyPartPubSubChannel + r.separator + channel
FullChannel(channel) == prefix \o separator \o KeyPartPubSubChannel \o separator \o channel

\* The backend hands a message published on a channel to the subscription
\* on that channel, while the subscription's message source is open.
Delivery(channel, message) ==
    IF subChannel = FullChannel(channel) /\ ~srcClosed
    THEN /\ Len(delivered) < MaxMsgs
         /\ srcQueue' = Append(srcQueue, Message(FullChannel(channel), message))
         /\ delivered' = Append(delivered, Message(FullChannel(channel), message))
         /\ UNCHANGED <<subChannel, srcClosed, fwdPc, fwdMsg, chClosed, received, consumer>>
    ELSE UNCHANGED subVars

\* Subscribe opens the backend subscription, makes the output stream and
\* starts the forwarding task.
Subscribe(c, channel) ==
    /\ pc[c] = "idle"
    /\ subChannel = <<>>
    /\ Returned(c, "Subscribe", NoIdentifier, Result("nil", "", "ch"), 1, store)
    /\ subChannel' = FullChannel(channel)
    /\ fwdPc' = "range"
    /\ UNCHANGED <<srcQueue, srcClosed, fwdMsg, chClosed, delivered, received, consumer>>

\* The backend subscription's message source closes: an unsubscribe, or the
\* connection is lost. Messages already in the source stay to be taken.
CloseSource ==
    /\ subChannel # <<>>
    /\ ~srcClosed
    /\ srcClosed' = TRUE
    /\ UNCHANGED <<subChannel, srcQueue, fwdPc, fwdMsg, chClosed, delivered, received, consumer>>
    /\ UNCHANGED <<repoVars, keyVars, codecVars>>

\* The forwarding task taking the newest message of the source, not the oldest.
FwdRangeNewest ==
    /\ fwdPc = "range"
    /\ srcQueue # <<>>
    /\ fwdMsg' = srcQueue[Len(srcQueue)]
    /\ srcQueue' = SubSeq(srcQueue, 1, Len(srcQueue) - 1)
    /\ fwdPc' = "send"
    /\ UNCHANGED <<subChannel, srcClosed, chClosed, delivered, received, consumer>>
    /\ UNCHANGED <<repoVars, keyVars, codecVars>>

\* for msg := range pubsub.Channel(): the forwarding task takes the next message.
FwdRange ==
    /\ fwdPc = "range"
    /\ srcQueue # <<>>
    /\ fwdMsg' = Head(srcQueue)
    /\ srcQueue' = Tail(srcQueue)
    /\ fwdPc' = "send"
    /\ UNCHANGED <<subChannel, srcClosed, chClosed, delivered, received, consumer>>
    /\ UNCHANGED <<repoVars, keyVars, codecVars>>

\* ch <- msg.Payload: the output stream has no buffer, so the send happens
\* when the consumer receives.
FwdSend ==
    /\ fwdPc = "send"
    /\ consumer = "receiving"
    /\ received' = Append(received, fwdMsg.Payload)
    /\ fwdMsg' = NoMessage
    /\ fwdPc' = "range"
    /\ UNCHANGED <<subChannel, srcQueue, srcClosed, chClosed, delivered, consumer>>
    /\ UNCHANGED <<repoVars, keyVars, codecVars>>

\* The source is closed and empty: the loop ends and the deferred close(ch) runs.
FwdClose ==
    /\ fwdPc = "range"
    /\ srcQueue = <<>>
    /\ srcClosed
    /\ chClosed' = TRUE
    /\ fwdPc' = "done"
    /\ UNCHANGED <<subChannel, srcQueue, srcClosed, fwdMsg, delivered, received, consumer>>
    /\ UNCHANGED <<repoVars, keyVars, codecVars>>

\* The consumer stops receiving from the output stream.
ConsumerStop ==
    /\ subChannel # <<>>
    /\ consumer = "receiving"
    /\ consumer' = "stopped"
    /\ UNCHANGED <<subChannel, srcQueue, srcClosed, fwdPc, fwdMsg, chClosed, delivered, received>>
    /\ UNCHANGED <<repoVars, keyVars, codecVars>>

Ping(c, fault) ==
    /\ pc[c] = "idle"
    /\ IF fault
       THEN Return(c, "Ping", NoIdentifier, Result("backend", "", "none"), 1, store)
       ELSE Return(c, "Ping", NoIdentifier, Result("nil", "", "none"), 1, store)

\* One unit of time passes.
Tick ==
    /\ store' = Expire(store)
    /\ last' = Step("none", "Tick", NoIdentifier, Result("none", "", "none"), 0)
    /\ reply' = NoReply
    /\ UNCHANGED <<pc, op, id, val, ikey, keyVars, codecVars, subVars>>

-----------------------------------------------------------------------------
(* Specifications                                                          *)

\* Concurrent callers against a backend that answers every call.
Next ==
    \/ \E c \in Callers, i \in Ids, v \in Values : Create(c, i, v, FALSE) /\ UNCHANGED lease
    \/ \E c \in Callers : CreateSet(c, FALSE) /\ UNCHANGED lease
    \/ \E c \in Callers, i \in Ids : Read(c, i, FALSE) /\ UNCHANGED lease
    \/ \E c \in Callers, i \in Ids, v \in Values : Update(c, i, v, FALSE) /\ UNCHANGED lease
    \/ \E c \in Callers : UpdateSet(c, FALSE) /\ UNCHANGED lease
    \/ \E c \in Callers, i \in Ids : Delete(c, i, FALSE) /\ UNCHANGED lease
    \/ \E c \in Callers, i \in Ids : List(c, i, FALSE) /\ UNCHANGED lease
    \/ \E c \in Callers, i \in Ids, ttl \in TTLs : AcquireLock(c, i, ttl, FALSE) /\ UNCHANGED lease
    \/ \E c \in Callers, i \in Ids : ReleaseLock(c, i, FALSE) /\ UNCHANGED lease
    \/ Tick /\ UNCHANGED lease

Spec == Init /\ [][Next]_vars

\* The lease a caller was granted: it holds the lock from the AcquireLock
\* that returned true until it calls ReleaseLock itself or the time is up.
Granted(c, i, ttl) ==
    IF last'.res.err = "nil" /\ last'.res.out
    THEN [lease EXCEPT ![c][LockKey(RenderedKey[i].key)] = ttl]
    ELSE lease

GivenUp(c, i) ==
    IF RenderedKey[i].err = "nil"
    THEN [lease EXCEPT ![c][LockKey(RenderedKey[i].key)] = 0]
    ELSE lease

Elapsed == [c \in Callers |-> [lk \in LockKeys |->
                IF lease[c][lk] > 0 THEN lease[c][lk] - 1 ELSE 0]]

\* Concurrent callers of the lock operations, with the leases they hold.
NextLock ==
    \/ \E c \in Callers, i \in Ids, ttl \in TTLs :
            AcquireLock(c, i, ttl, FALSE) /\ lease' = Granted(c, i, ttl)
    \/ \E c \in Callers, i \in Ids :
            ReleaseLock(c, i, FALSE) /\ lease' = GivenUp(c, i)
    \/ Tick /\ lease' = Elapsed

SpecLock == Init /\ [][NextLock]_vars

\* Concurrent callers of Create, Update and Delete.
NextCrud ==
    \/ \E c \in Callers, i \in Ids, v \in Values : Create(c, i, v, FALSE) /\ UNCHANGED lease
    \/ \E c \in Callers : CreateSet(c, FALSE) /\ UNCHANGED lease
    \/ \E c \in Callers, i \in Ids, v \in Values : Update(c, i, v, FALSE) /\ UNCHANGED lease
    \/ \E c \in Callers : UpdateSet(c, FALSE) /\ UNCHANGED lease
    \/ \E c \in Callers, i \in Ids : Delete(c, i, FALSE) /\ UNCHANGED lease

SpecCrud == Init /\ [][NextCrud]_vars

\* A ReleaseLock that returned nil has released the lock, whoever held it.
Released(c, i) ==
    IF last'.res.err = "nil"
    THEN [d \in Callers |-> [lease[d] EXCEPT ![LockKey(RenderedKey[i].key)] = 0]]
    ELSE lease

\* Concurrent callers of the lock operations and of the entity operations
\* on one keyspace, with identifiers that render to keys, and the leases
\* that were granted and not yet released.
NextLockData ==
    \/ \E c \in Callers, i \in ValidIds, ttl \in TTLs :
            AcquireLock(c, i, ttl, FALSE) /\ lease' = Granted(c, i, ttl)
    \/ \E c \in Callers, i \in ValidIds :
            ReleaseLock(c, i, FALSE) /\ lease' = Released(c, i)
    \/ \E c \in Callers, i \in ValidIds, v \in Values : Create(c, i, v, FALSE) /\ UNCHANGED lease
    \/ \E c \in Callers : CreateSet(c, FALSE) /\ UNCHANGED lease
    \/ \E c \in Callers, i \in ValidIds : Read(c, i, FALSE) /\ UNCHANGED lease
    \/ \E c \in Callers, i \in ValidIds, v \in Values : Update(c, i, v, FALSE) /\ UNCHANGED lease
    \/ \E c \in Callers : UpdateSet(c, FALSE) /\ UNCHANGED lease
    \/ \E c \in Callers, i \in ValidIds : Delete(c, i, FALSE) /\ UNCHANGED lease
    \/ Tick /\ lease' = Elapsed

SpecLockData == Init /\ [][NextLockData]_vars

\* Concurrent callers against a backend that may report an error on any call.
NextFaulty ==
    \/ \E c \in Callers, i \in Ids, v \in Values, f \in BOOLEAN : Create(c, i, v, f) /\ UNCHANGED lease
    \/ \E c \in Callers, f \in BOOLEAN : CreateSet(c, f) /\ UNCHANGED lease
    \/ \E c \in Callers, i \in Ids, f \in BOOLEAN : Read(c, i, f) /\ UNCHANGED lease
    \/ \E c \in Callers, i \in Ids, v \in Values, f \in BOOLEAN : Update(c, i, v, f) /\ UNCHANGED lease
    \/ \E c \in Callers, f \in BOOLEAN : UpdateSet(c, f) /\ UNCHANGED lease
    \/ \E c \in Callers, i \in Ids, f \in BOOLEAN : Delete(c, i, f) /\ UNCHANGED lease
    \/ \E c \in Callers, i \in Ids, f \in BOOLEAN : List(c, i, f) /\ UNCHANGED lease
    \/ \E c \in Callers, i \in Ids, ttl \in TTLs, f \in BOOLEAN :
            AcquireLock(c, i, ttl, f) /\ UNCHANGED lease
    \/ \E c \in Callers, i \in Ids, f \in BOOLEAN : ReleaseLock(c, i, f) /\ UNCHANGED lease
    \/ \E c \in Callers, res \in Replies(store), f \in BOOLEAN :
            Search(c, res, f) /\ UNCHANGED lease
    \/ \E c \in Callers, n \in Channels, m \in Messages, f \in BOOLEAN :
            Publish(c, n, m, f) /\ UNCHANGED <<lease, subVars>>
    \/ \E c \in Callers, f \in BOOLEAN : Ping(c, f) /\ UNCHANGED lease
    \/ Tick /\ UNCHANGED lease

SpecFaulty == Init /\ [][NextFaulty]_vars

\* One subscription, its publishers, its forwarding task and its consumer.
NextSub ==
    \/ \E c \in Callers, n \in Channels : Subscribe(c, n) /\ UNCHANGED lease
    \/ \E c \in Callers, n \in Channels, m \in Messages :
            Publish(c, n, m, FALSE) /\ Delivery(n, m) /\ UNCHANGED lease
    \/ CloseSource
    \/ FwdRange
    \/ FwdSend
    \/ FwdClose
    \/ ConsumerStop

SpecSub == Init /\ [][NextSub]_vars

\* The forwarding task is a goroutine: it takes its next step whenever it
\* can. Its send can be taken only while the consumer receives.
SpecSubFair ==
    /\ SpecSub
    /\ WF_vars(FwdRange)
    /\ WF_vars(FwdSend)
    /\ WF_vars(FwdClose)

\* A keyspace shared with other writers: documents under any of the data
\* and foreign keys.
SharedStores ==
    {[x \in S |-> Document("v1")] :
        S \in SUBSET ({RenderedKey[i].key : i \in ValidIds} \cup ForeignKeys)}

\* The enumerations over a shared keyspace. An enumeration is one step, so
\* one caller shows all there is to see.
NextEnum ==
    \/ \E i \in Ids : List("c1", i, FALSE) /\ UNCHANGED lease
    \/ \E res \in Replies(store) : Search("c1", res, FALSE) /\ UNCHANGED lease

InitEnumRun ==
    /\ store \in SharedStores
    /\ InitCallers
    /\ NoKeyRun
    /\ NoCodecRun
    /\ NoSubscription

SpecEnum == InitEnumRun /\ [][NextEnum]_vars

\* validateKey and keyToIdentifier on every key under test.
NextKey ==
    \/ ValidateKey
    \/ DecodeKey

InitKeyRun == InitRepo /\ InitKey /\ NoCodecRun /\ NoSubscription

SpecKey == InitKeyRun /\ [][NextKey]_vars

\* identifierToKey, then keyToIdentifier, on every identifier under test.
NextCodec ==
    \/ ToKey
    \/ FromKey

InitCodecRun == InitRepo /\ NoKeyRun /\ InitCodec /\ NoSubscription

SpecCodec == InitCodecRun /\ [][NextCodec]_vars

-----------------------------------------------------------------------------
(* Claims about the lock operations                                        *)

Holders(lk) == {c \in Callers : lease[c][lk] > 0}

\* The identifier of the step just taken renders to a key.
LastValid == last.op # "Tick" /\ last.op # "none" /\ RenderedKey[last.id].err = "nil"

LastLockKey == LockKey(RenderedKey[last.id].key)

\* C1: under any interleaving of AcquireLock, ReleaseLock and TTL expiry, at
\* most one caller at a time holds the lock of an identifier, a caller
\* holding it from the AcquireLock that returned true until it calls
\* ReleaseLock itself or the lock's TTL expires.
C1_AtMostOneHolder == \A lk \in LockKeys : Cardinality(Holders(lk)) <= 1

\* C2: an AcquireLock on an identifier whose lock was acquired and has been
\* neither released nor expired returns false and no error and leaves the
\* lock record, value and expiry, as it is; and a lock record never outlives
\* the TTL it was acquired with: it carries the time left of a lease granted
\* with that TTL, and is gone when that time is up.
C2_SecondAcquire ==
    [][/\ (LastValid' /\ last'.op = "AcquireLock" /\ LastLockKey' \in DOMAIN store)
            => /\ last'.res = Result("nil", "", FALSE)
               /\ store' = store
       /\ \A lk \in LockKeys \cap DOMAIN store' :
            /\ store'[lk].ttl >= 1
            /\ \E c \in Callers : lease'[c][lk] = store'[lk].ttl
       /\ last'.op = "Tick" =>
            \A lk \in LockKeys \cap DOMAIN store :
                IF store[lk].ttl = 1 THEN lk \notin DOMAIN store'
                ELSE lk \in DOMAIN store' /\ store'[lk].ttl = store[lk].ttl - 1
      ]_vars

\* A second AcquireLock has returned false while the first holder's lease runs.
C2_Witness ==
    /\ LastValid /\ last.op = "AcquireLock"
    /\ last.res = Result("nil", "", FALSE)
    /\ LastLockKey \in DOMAIN store
    /\ \E c \in Callers \ {last.c} : lease[c][LastLockKey] = store[LastLockKey].ttl


-----------------------------------------------------------------------------
(* Claims about Create, Update and Delete                                  *)

LastKey == RenderedKey[last.id].key

\* Every key but x is in st2 as it is in st1.
OthersUnchanged(st1, st2, x) ==
    /\ DOMAIN st2 \ {x} = DOMAIN st1 \ {x}
    /\ \A y \in DOMAIN st1 \ {x} : st2[y] = st1[y]

\* C3: a Create on an identifier whose key is in the store returns
\* AlreadyExists and leaves the value of that key, and every other key, as
\* it is.
C3_CreateExisting ==
    [][(LastValid' /\ last'.op = "Create" /\ last'.calls = 1 /\ LastKey' \in DOMAIN store)
            => /\ last'.res = Result("ErrAlreadyExists", "", "none")
               /\ store' = store
               /\ pc'[last'.c] = "idle"
      ]_vars

\* A Create has returned AlreadyExists on a key that holds another caller's document.
C3_Witness ==
    /\ LastValid /\ last.op = "Create"
    /\ last.res.err = "ErrAlreadyExists"
    /\ LastKey \in DOMAIN store
    /\ store[LastKey].type = "json"
    /\ \E y \in DOMAIN store : y # LastKey

\* C4: an Update on an identifier whose key is not in the store returns
\* NotFound and creates nothing: the store holds the same keys afterwards,
\* and no write of this Update is to come.
C4_UpdateMissing ==
    [][(LastValid' /\ last'.op = "Update" /\ last'.calls = 1 /\ LastKey' \notin DOMAIN store)
            => /\ last'.res = Result("ErrNotFound", "", "none")
               /\ DOMAIN store' = DOMAIN store
               /\ store' = store
               /\ pc'[last'.c] = "idle"
      ]_vars

\* An Update has returned NotFound on a key missing from a store that holds others.
C4_Witness ==
    /\ LastValid /\ last.op = "Update"
    /\ last.res.err = "ErrNotFound"
    /\ LastKey \notin DOMAIN store
    /\ store # EmptyStore

\* C5: a Delete on an identifier whose key is missing returns NotFound and
\* changes nothing; on one whose key exists it succeeds and removes that
\* key and no other, every other key keeping its value.
C5_DeleteExactlyThatKey ==
    [][(LastValid' /\ last'.op = "Delete")
            => IF LastKey' \in DOMAIN store
               THEN /\ last'.res = Result("nil", "", "none")
                    /\ LastKey' \notin DOMAIN store'
                    /\ OthersUnchanged(store, store', LastKey')
               ELSE /\ last'.res = Result("ErrNotFound", "", "none")
                    /\ store' = store
      ]_vars

\* A Delete has succeeded and other keys are still in the store.
C5_Witness ==
    /\ LastValid /\ last.op = "Delete"
    /\ last.res.err = "nil"
    /\ LastKey \notin DOMAIN store
    /\ Cardinality(DOMAIN store) >= 2

-----------------------------------------------------------------------------
(* Claims about identifier validation in the operations                    *)

Operations == {"Create", "Read", "Update", "Delete", "List", "AcquireLock", "ReleaseLock"}

\* The identifier fails the entity-prefix grammar, or the key it renders to
\* fails the key grammar.
FailsValidation(i) ==
    \/ i.type = "RedisIdentifier" /\ ~entityPrefixRegex(i.EntityPrefix)
    \/ i.type = "RedisIdentifier"
        /\ validateKey(prefix \o separator \o i.EntityPrefix \o separator \o i.ID) # "nil"
    \/ i.type = "SimpleIdentifier" /\ validateKey(prefix \o separator \o i.s) # "nil"

\* C10: every operation that takes an identifier, called with one that
\* fails entity-prefix or key-grammar validation, returns an error wrapped
\* as InvalidIdentifier, issues no backend call and leaves the store
\* unchanged.
C10_InvalidIdentifier ==
    [][(last'.op \in Operations /\ FailsValidation(last'.id))
            => /\ last'.res.err = "ErrInvalidIdentifier"
               /\ last'.res.cause \in {"ErrInvalidEntityPrefix", "ErrInvalidKeyLength",
                                       "ErrInvalidKeyChars", "ErrInvalidKeyPrefix",
                                       "ErrInvalidKeySuffix", "ErrEmptyKeyPart"}
               /\ last'.calls = 0
               /\ store' = store
               /\ pc'[last'.c] = "idle"
      ]_vars

\* An operation has turned down an identifier with a bad entity prefix
\* while the store holds keys.
C10_Witness ==
    /\ last.op = "Delete"
    /\ FailsValidation(last.id)
    /\ last.id.type = "RedisIdentifier"
    /\ last.res.err = "ErrInvalidIdentifier"
    /\ last.calls = 0
    /\ store # EmptyStore


-----------------------------------------------------------------------------
(* Claims about the key grammar. The conditions are stated on the          *)
(* characters of the key, not through Split.                               *)

LengthOK(s) == Len(s) >= 5 /\ Len(s) <= 256

CharsOK(s) == \A n \in 1..Len(s) : s[n] \in KeyChars

StartsWithPrefix(s) ==
    /\ Len(s) >= Len(prefix) + 1
    /\ \A n \in 1..Len(prefix) : s[n] = prefix[n]
    /\ <<s[Len(prefix) + 1]>> = separator

\* Where the parts of s end: before its first character, at each separator,
\* and after its last character.
Cuts(s) == {0} \cup {n \in 1..Len(s) : <<s[n]>> = separator} \cup {Len(s) + 1}

SeparatorFree(s) == Cuts(s) = {0, Len(s) + 1}

\* No part is empty: no two cuts are next to each other.
NoEmptyPart(s) == \A n \in Cuts(s) : n + 1 \notin Cuts(s)

\* There is a second part and it is not empty: a character that is no
\* separator follows the first separator.
SecondPartNonEmpty(s) ==
    \E n \in 1..Len(s) :
        /\ n \in Cuts(s)
        /\ \A m \in 1..(n - 1) : m \notin Cuts(s)
        /\ n + 1 \notin Cuts(s)

\* C6: validateKey succeeds on a key if and only if the key has length in
\* [5,256], consists only of characters of [A-Za-z0-9_:.-], starts with
\* prefix+separator, has a non-empty second part and no empty part.
C6_ValidIff ==
    kerr # "none" =>
        (kerr = "nil" <=> /\ LengthOK(k)
                          /\ CharsOK(k)
                          /\ StartsWithPrefix(k)
                          /\ SecondPartNonEmpty(k)
                          /\ NoEmptyPart(k))

\* validateKey has accepted a key of the greatest length.
C6_Witness == kerr = "nil" /\ Len(k) = 256

\* The separator is doubled right after the prefix, within the length
\* bounds and the character class.
DoubledAfterPrefix(s) ==
    /\ LengthOK(s)
    /\ CharsOK(s)
    /\ StartsWithPrefix(s)
    /\ <<s[Len(prefix) + 2]>> = separator

\* C8 as claimed: a key whose separator is doubled right after the prefix
\* fails validation with ErrEmptyKeyPart.
C8_DoubledIsEmptyKeyPart ==
    (kerr # "none" /\ DoubledAfterPrefix(k)) => kerr = "ErrEmptyKeyPart"

\* C8 amended: such a key fails validation with ErrInvalidKeySuffix, the
\* suffix check coming before the empty-part scan.
C8_DoubledIsInvalidSuffix ==
    (kerr # "none" /\ DoubledAfterPrefix(k)) => kerr = "ErrInvalidKeySuffix"

\* validateKey has turned down "app::42".
C8_Witness ==
    /\ k = <<"a", "p", "p", ":", ":", "4", "2">>
    /\ DoubledAfterPrefix(k)
    /\ kerr = "ErrInvalidKeySuffix"

\* The checks in their order, each with the error of its failure.
CheckOrder(s) ==
    << <<"ErrInvalidKeyLength", LengthOK(s)>>,
       <<"ErrInvalidKeyChars", CharsOK(s)>>,
       <<"ErrInvalidKeyPrefix", StartsWithPrefix(s)>>,
       <<"ErrInvalidKeySuffix", SecondPartNonEmpty(s)>>,
       <<"ErrEmptyKeyPart", NoEmptyPart(s)>> >>

Failing(s) == {n \in 1..5 : ~CheckOrder(s)[n][2]}

\* C9: validateKey returns the error of the first check, in the order
\* length, character set, prefix, suffix, empty-part scan, that the key
\* fails, and nil when it fails none.
C9_FirstFailureWins ==
    kerr # "none" =>
        kerr = IF Failing(k) = {} THEN "nil" ELSE CheckOrder(k)[Min(Failing(k))][1]

\* validateKey has reported the length of a key that fails later checks too.
C9_Witness ==
    /\ kerr = "ErrInvalidKeyLength"
    /\ Cardinality(Failing(k)) >= 3
    /\ Len(k) > 256

-----------------------------------------------------------------------------
(* Claims about the identifier codec                                       *)

\* A composite identifier with a grammar-valid entity prefix and a
\* separator-free id, or a simple one with separator-free content of the
\* key character class.
Eligible(i) ==
    \/ /\ i.type = "RedisIdentifier"
       /\ entityPrefixRegex(i.EntityPrefix)
       /\ SeparatorFree(i.ID)
    \/ /\ i.type = "SimpleIdentifier"
       /\ SeparatorFree(i.s)
       /\ CharsOK(i.s)

\* C7: for every such identifier that identifierToKey renders, keyToIdentifier
\* on the key returns an identifier equal to it, of the same variant.
C7_RoundTrip ==
    (back.err # "none" /\ Eligible(ident)) =>
        /\ back.err = "nil"
        /\ back.identifier = ident
        /\ back.identifier.type = ident.type

\* {user, 42} has come back from "app:user:42".
C7_Witness ==
    /\ ident = RedisIdentifier(<<"u", "s", "e", "r">>, <<"4", "2">>)
    /\ ikres.key = <<"a", "p", "p", ":", "u", "s", "e", "r", ":", "4", "2">>
    /\ back.err = "nil"
    /\ back.identifier = ident

-----------------------------------------------------------------------------
(* Claims about backend errors                                             *)

\* The errors the backend reports: a failed call, and a command refused on
\* a key of another type.
BackendErrors == {"backend", "WRONGTYPE"}

\* C11: in every operation, an error reported by a backend call of the
\* operation (other than Get's not-found signal) reaches the caller
\* classified as OperationFailed and wrapping the backend's error, never as
\* the backend's error itself; this includes the document-set of Create and
\* Update and the calls of Publish and Ping.
C11_BackendErrorWrapped ==
    /\ last.res.err \notin BackendErrors
    /\ last.res.err = "ErrOperationFailed" => last.res.cause \in BackendErrors

-----------------------------------------------------------------------------
(* Claims about the enumerations                                           *)

\* The key satisfies the key grammar, stated on its characters.
WellFormed(s) ==
    /\ LengthOK(s)
    /\ CharsOK(s)
    /\ StartsWithPrefix(s)
    /\ SecondPartNonEmpty(s)
    /\ NoEmptyPart(s)

\* The identifiers of the well-formed keys among keys, in the order of keys.
RECURSIVE DecodedWellFormed(_)
DecodedWellFormed(keys) ==
    IF keys = <<>> THEN <<>>
    ELSE (IF WellFormed(Head(keys))
          THEN <<keyToIdentifier(Head(keys)).identifier>>
          ELSE <<>>) \o DecodedWellFormed(Tail(keys))

\* The keys of a search envelope [total, key1, fields1, key2, fields2, ...].
EnvelopeKeys(res) == [n \in 1..(Len(res.items) \div 2) |-> res.items[2 * n].s]

\* The answer has the shape of a search envelope.
IsEnvelope(res) ==
    /\ res.kind = "array"
    /\ Len(res.items) >= 1
    /\ res.items[1].kind = "int64"

\* C12: for any sequence of keys the backend returns to List or Search, the
\* operation returns no error and exactly the identifiers decoded from the
\* well-formed keys of the sequence, in the backend's order: malformed keys
\* are skipped, no well-formed key is dropped or moved.
C12_ExactlyWellFormed ==
    /\ (last.op = "List" /\ RenderedKey[last.id].err = "nil")
            => last.res = Result("nil", "", DecodedWellFormed(reply))
    /\ (last.op = "Search" /\ IsEnvelope(reply))
            => last.res = Result("nil", "", DecodedWellFormed(EnvelopeKeys(reply)))

\* List has returned two identifiers for three keys of which the second is
\* malformed.
C12_Witness ==
    /\ last.op = "List"
    /\ Len(reply) = 3
    /\ ~WellFormed(reply[2])
    /\ WellFormed(reply[1]) /\ WellFormed(reply[3])
    /\ Len(last.res.out) = 2

-----------------------------------------------------------------------------
(* Claims about the subscription                                           *)

\* C13: for one subscription, the payloads received on the output stream
\* are at every moment a prefix of the payloads of the messages the backend
\* delivered to the subscription: the forwarding task loses, doubles and
\* reorders nothing.
C13_ReceivedIsPrefix ==
    /\ Len(received) <= Len(delivered)
    /\ \A n \in 1..Len(received) : received[n] = delivered[n].Payload

\* The consumer has received two different payloads and more are on the way.
C13_Witness ==
    /\ Len(received) >= 2
    /\ received[1] # received[2]
    /\ Len(delivered) > Len(received)

\* C14: once the subscription's message source is closed, the forwarding
\* task eventually terminates and closes the output stream; and the output
\* stream is never closed while the source is open.
C14_ClosesAfterSource ==
    /\ srcClosed ~> (fwdPc = "done" /\ chClosed)
    /\ [](chClosed => srcClosed)

-----------------------------------------------------------------------------
(* Claims about lock records and entities in one keyspace                  *)

\* No caller has a lease on the lock key: the lock was never acquired, or
\* it was released, or its time is up.
NotHeld(lk) == \A c \in Callers : lease[c][lk] = 0

\* C15: a ReleaseLock on an identifier whose lock is not held (never
\* acquired, already released, or expired) returns NotFound and changes
\* nothing in the store.
C15_ReleaseNotHeld ==
    [][(LastValid' /\ last'.op = "ReleaseLock" /\ NotHeld(LastLockKey'))
            => /\ last'.res = Result("ErrNotFound", "", "none")
               /\ store' = store
      ]_vars

\* C16: a Search whose result envelope has totalCount 0 returns an empty
\* sequence of identifiers and no error.
C16_SearchNothingFound ==
    (last.op = "Search" /\ IsEnvelope(reply) /\ reply.items[1].n = 0)
        => last.res = Result("nil", "", <<>>)

\* A Search over a keyspace that holds documents has been answered with
\* totalCount 0 and has returned the empty sequence.
C16_Witness ==
    /\ last.op = "Search"
    /\ reply = Envelope(0, <<>>)
    /\ last.res = Result("nil", "", <<>>)
    /\ store # EmptyStore

-----------------------------------------------------------------------------
(* Claims about concurrent Create, Update and Delete                       *)

\* C17: the existence probe and the document-set of Create are two backend
\* steps, and the document-set is unconditional: two concurrent Creates on
\* one absent key can both pass the probe before either writes (the
\* witness), and then the document-set of each succeeds and stores its
\* value, also over the document the other has written in between.
C17_CreateSetOverwrites ==
    [][(/\ LastValid' /\ last'.op = "Create" /\ last'.calls = 2
        /\ (LastKey' \in DOMAIN store => store[LastKey'].type = "json"))
            => /\ last'.res = Result("nil", "", "none")
               /\ store'[LastKey'] = Document(val[last'.c])
               /\ OthersUnchanged(store, store', LastKey')
      ]_vars

\* Two Creates of different values passed the probe on one absent key; one
\* has written its document and returned nil, the other is about to write.
C17_Witness ==
    /\ LastValid /\ last.op = "Create" /\ last.calls = 2
    /\ last.res = Result("nil", "", "none")
    /\ \E d \in Callers \ {last.c} :
            /\ pc[d] = "JSONSet" /\ op[d] = "Create"
            /\ ikey[d] = LastKey
            /\ store[LastKey].type = "json"
            /\ val[d] # store[LastKey].v

-----------------------------------------------------------------------------
(* Claims about decoding                                                   *)

\* The cuts of s in rising order.
CutSeq(s) ==
    [n \in 1..Cardinality(Cuts(s)) |->
        CHOOSE x \in Cuts(s) : Cardinality({y \in Cuts(s) : y < x}) = n - 1]

\* The parts of s that come after its first part: what lies between one
\* cut and the next, from the second cut on.
PartsAfterPrefix(s) ==
    [n \in 1..(Cardinality(Cuts(s)) - 2) |->
        SubSeq(s, CutSeq(s)[n + 1] + 1, CutSeq(s)[n + 2] - 1)]

\* C18: keyToIdentifier on a valid key returns no error and decodes by
\* shape: with two or more parts after the prefix, a composite identifier
\* made of the first two of them, the others dropped; with one part, the
\* simple identifier equal to that part.
C18_DecodesByShape ==
    (kid.err # "none" /\ WellFormed(k)) =>
        /\ kid.err = "nil"
        /\ kid.identifier =
                IF Len(PartsAfterPrefix(k)) >= 2
                THEN RedisIdentifier(PartsAfterPrefix(k)[1], PartsAfterPrefix(k)[2])
                ELSE SimpleIdentifier(PartsAfterPrefix(k)[1])

\* "app:u:4:2" has been decoded to {u, 4}.
C18_Witness ==
    /\ k = <<"a", "p", "p", ":", "u", ":", "4", ":", "2">>
    /\ Len(PartsAfterPrefix(k)) = 3
    /\ kid.err = "nil"
    /\ kid.identifier = RedisIdentifier(<<"u">>, <<"4">>)

-----------------------------------------------------------------------------
(* Claims about lock keys and data keys                                    *)

\* The keys under which the entities of the valid identifiers are stored.
DataKeys == {RenderedKey[i].key : i \in ValidIds}

\* Key x holds in st2 what it holds in st1, or is missing from both.
SameRecord(st1, st2, x) ==
    /\ x \in DOMAIN st1 <=> x \in DOMAIN st2
    /\ x \in DOMAIN st1 => st1[x] = st2[x]

\* C19: lock records and stored entities never interfere, the lock key of
\* an identifier being the data key of none: an AcquireLock or ReleaseLock
\* leaves the record under every data key as it is, so that it changes
\* the outcome of no Create, Read, Update or Delete, and a Create, Update
\* or Delete leaves the record under every lock key as it is, so that it
\* changes no lock from held to free or back.
C19_LocksAndEntitiesApart ==
    [][/\ last'.op \in {"AcquireLock", "ReleaseLock"}
            => \A x \in DataKeys : SameRecord(store, store', x)
       /\ last'.op \in {"Create", "Update", "Delete"}
            => \A x \in LockKeys : SameRecord(store, store', x)
      ]_vars

-----------------------------------------------------------------------------
(* Claims about a key coming to exist                                      *)

\* C20: in every interleaving of Create, Update and Delete calls, a step of
\* these operations that makes an absent data key present is the write of
\* a Create: a key that a Delete has removed stays absent until a Create
\* writes it, also when an Update probed the key before the Delete and
\* writes after it.
C20_OnlyCreateMakesPresent ==
    [][\A x \in DataKeys :
            (/\ last'.op \in {"Create", "Update", "Delete"}
             /\ x \notin DOMAIN store
             /\ x \in DOMAIN store')
                => last'.op = "Create"
      ]_vars

====
